---- MODULE Spec2Model ----
(***************************************************************************)
(* Whoofsy pet-recovery backend (src/main.py, src/schemas.py).             *)
(*                                                                         *)
(* The document store holds five collections.  Every request handler of    *)
(* main.py is an action of Spec, where requests run one after the other.   *)
(* SpecConc runs the handlers of the tag and coupon collections            *)
(* (activate_tag, link_tag, record_scan, mark_reunion) one store call at a *)
(* time, so that the calls of different requests interleave.               *)
(*                                                                         *)
(* Conventions.  An Optional value is a sequence: <<>> is None and <<v>>   *)
(* is the value v.  An id string is a record [k, n]: the store's n-th      *)
(* ObjectId of collection k, or a string the store never assigned.         *)
(* Fixed-point tenths stand for the float coordinates (105 is 10.5).       *)
(* Timestamps (created_at, updated_at, timestamp) and the pass-through     *)
(* text fields (name of a user, breed, color, medical notes, allergies,    *)
(* tag model, user agent, referrer) are left out: no handler branches on   *)
(* them.                                                                   *)
(***************************************************************************)
EXTENDS Integers, Sequences, FiniteSets, TLC

VARIABLES users, pets, tags, scanevents, coupons, resp, pc

store == <<users, pets, tags, scanevents, coupons>>
vars == <<users, pets, tags, scanevents, coupons, resp, pc>>

(* ------------------------------ bounds -------------------------------- *)

\* documents the store holds at most, all collections but user together
\* (the user collection holds at most one document per email)
MaxDocs == 3
\* requests in flight at once in SpecConc
NumWorkers == 2

(* ------------------------------ values -------------------------------- *)

None == <<>>
Some(v) == <<v>>

\* str(ObjectId) of the n-th document inserted into collection k
Oid(k, n) == [k |-> k, n |-> n]
\* a non-empty string that is not a well-formed ObjectId
BadIdStr == [k |-> "text", n |-> 0]

Codes == {"TAG1", "TAG2"}
Emails == {"a@x.io"}
Phones == {Some("555-0100")}
PetNames == {"Rex"}
\* owner_id of a PetPayload: any string, no handler reads it back
OwnerInputs == {Oid("user", 1)}
\* contact_visibility of a PetPayload other than the default "phone"
Visibilities == {"form"}
StatusInputs == {"ACTIVE", "LOST", "MISSING"}
\* lat, lng, accuracy as a client may send them: all of them or some of them
\* (test_my_tag sends none)
GpsInputs ==
  { [lat |-> Some(105), lng |-> Some(201), accuracy |-> Some(50)],
    [lat |-> Some(10), lng |-> None, accuracy |-> None] }
NoGps == [lat |-> None, lng |-> None, accuracy |-> None]

\* the strings a client may put into user_id and into pet_id: the id of the
\* first document of the collection, which names nothing until that document
\* is inserted, and a string that is no ObjectId
UserIdInputs == {Oid("user", 1), BadIdStr}
PetIdInputs == {Oid("pet", 1), BadIdStr}

(* --------------------------- store adapter ---------------------------- *)

Min(S) == CHOOSE x \in S : \A y \in S : x <= y

\* bson.ObjectId(s): accepts a well-formed id string, raises InvalidId otherwise
ObjectIdOk(s) == s.k # "text"

\* a document matches a filter when it has every field of the filter with the
\* filter's value
Matches(doc, filter) ==
  \A f \in DOMAIN filter : f \in DOMAIN doc /\ doc[f] = filter[f]

\* Collection.find_one(filter): the first matching document in natural order
FindOne(coll, filter) ==
  LET m == { i \in 1..Len(coll) : Matches(coll[i], filter) }
  IN IF m = {} THEN None ELSE Some(coll[Min(m)])

\* Collection.update_one(filter, {"$set": set}): the collection afterwards
UpdateOne(coll, filter, set) ==
  LET m == { i \in 1..Len(coll) : Matches(coll[i], filter) }
      d == coll[Min(m)]
  IN IF m = {} THEN coll
     ELSE [coll EXCEPT ![Min(m)] =
             [f \in DOMAIN d \cup DOMAIN set |->
                IF f \in DOMAIN set THEN set[f] ELSE d[f]]]

\* res.matched_count of that update_one
MatchedCount(coll, filter) ==
  IF \E i \in 1..Len(coll) : Matches(coll[i], filter) THEN 1 ELSE 0

\* database.create_document(collection, model): inserts the model's fields as
\* one new document and returns the new id as a string
NewId(coll, k) == Oid(k, Len(coll) + 1)
CreateDocument(coll, k, doc) ==
  Append(coll, [f \in DOMAIN doc \cup {"_id"} |->
                  IF f = "_id" THEN NewId(coll, k) ELSE doc[f]])

(* ------------------------------ schemas ------------------------------- *)

User(email, phone, tier) == [email |-> email, phone |-> phone, tier |-> tier]

Pet(owner_id, name, contact_visibility) ==
  [owner_id |-> owner_id, name |-> name, photos |-> <<>>,
   status |-> "ACTIVE", contact_visibility |-> contact_visibility]

Tag(code, activated) ==
  [code |-> code, owner_id |-> None, pet_id |-> None, activated |-> activated]

ScanEvent(code, pet_id, owner_id, gps) ==
  [code |-> code, pet_id |-> pet_id, owner_id |-> owner_id,
   lat |-> gps.lat, lng |-> gps.lng, accuracy |-> gps.accuracy]

Coupon(code, redeemed) == [code |-> code, redeemed |-> redeemed]

(* ----------------------------- responses ------------------------------ *)

\* raise HTTPException(status, detail), or an exception nobody catches (500)
Fail(op, req, status, detail) ==
  [op |-> op, req |-> req, status |-> status, detail |-> detail]
Ok(op, req, body) ==
  [op |-> op, req |-> req, status |-> 200, detail |-> "", body |-> body]

(* ------------------------- helpers of handlers ------------------------ *)

\* tag["id"] = str(tag["_id"]): the document with its normalized id
Normalized(doc) ==
  [f \in DOMAIN doc \cup {"id"} |-> IF f = "id" THEN doc._id ELSE doc[f]]

\* a value Python treats as true in "if tag.get(...)"
Truthy(opt) == opt # None

\* mutant: the conflict check reads the flag the wrong way round
AlreadyActivated_negated(tag) == tag # None /\ ~tag[1].activated

\* activate_tag, line 82: tag and tag.get("activated")
AlreadyActivated(tag) == tag # None /\ tag[1].activated

\* mutant: the scan checks that the tag exists and forgets "activated"
TagIsActive_exists(tag) == tag # None

\* record_scan, line 173: not (not tag or not tag.get("activated"))
TagIsActive(tag) == tag # None /\ tag[1].activated

\* activate_tag, lines 90-93: the $set of the activation
ActivateSet(user_id) == [owner_id |-> Some(user_id), activated |-> TRUE]

\* mutant: the $set misspells the field, pet_id stays as it was
LinkSet_misspelt(pet_id) == [petid |-> Some(pet_id)]

\* link_tag, line 149: the $set of the link
LinkSet(pet_id) == [pet_id |-> Some(pet_id)]

\* mutant: the filter leaves out "redeemed": False
UnredeemedFor_any(code) == [code |-> code]

\* mark_reunion, lines 257 and 263: {"code": code, "redeemed": False}
UnredeemedFor(code) == [code |-> code, redeemed |-> FALSE]

\* record_scan, lines 179-188: a reference that ObjectId() rejects
RefRaises(ref) == Truthy(ref) /\ ~ObjectIdOk(ref[1])

\* record_scan, lines 179-188: the document a reference resolves to
Resolve(coll, ref) ==
  IF Truthy(ref) THEN FindOne(coll, [_id |-> ref[1]]) ELSE None

\* mutant: lat and lng change places in the audit record
ScanEventOf_swapped(p, pet, owner) ==
  [code |-> p.code,
   pet_id |-> IF pet # None THEN Some(pet[1]._id) ELSE None,
   owner_id |-> IF owner # None THEN Some(owner[1]._id) ELSE None,
   lat |-> p.gps.lng, lng |-> p.gps.lat, accuracy |-> p.gps.accuracy]

\* record_scan, lines 191-201
ScanEventOf(p, pet, owner) ==
  ScanEvent(p.code,
            IF pet # None THEN Some(pet[1]._id) ELSE None,
            IF owner # None THEN Some(owner[1]._id) ELSE None,
            p.gps)

\* mutant: the alert goes to every resolved owner, whatever the tier
PremiumAlert_anytier(p, owner) ==
  IF owner # None
  THEN Some([type |-> "scan_alert", delivered |-> TRUE, channel |-> "email",
             gps |-> [lat |-> p.gps.lat, lng |-> p.gps.lng,
                      accuracy |-> p.gps.accuracy]])
  ELSE None

\* record_scan, lines 205-213
PremiumAlert(p, owner) ==
  LET tier == IF owner # None THEN owner[1].tier ELSE "basic"
  IN IF tier = "premium"
     THEN Some([type |-> "scan_alert", delivered |-> TRUE, channel |-> "email",
                gps |-> [lat |-> p.gps.lat, lng |-> p.gps.lng,
                         accuracy |-> p.gps.accuracy]])
     ELSE None

\* record_scan, lines 216-235
ScanPayload(p, pet, owner) ==
  [status |-> IF pet # None THEN pet[1].status ELSE "ACTIVE",
   pet |-> [name |-> IF pet # None THEN Some(pet[1].name) ELSE None,
            photos |-> IF pet # None THEN pet[1].photos ELSE <<>>],
   contact |-> [visibility |-> IF pet # None THEN pet[1].contact_visibility
                               ELSE "phone",
                phone |-> IF owner # None THEN owner[1].phone ELSE None],
   good_samaritan_offer |-> [headline |-> "Thank you for helping!",
                             copy |-> "Get 50% off your first Whoofsy tag."],
   premium_alert |-> PremiumAlert(p, owner)]

\* the bound of the model on the documents of the store
HasRoom == Len(pets) + Len(tags) + Len(scanevents) + Len(coupons) < MaxDocs

(* ------------------- handlers, one request at a time ------------------ *)

auth_google(p) ==
  LET existing == FindOne(users, [email |-> p.email])
  IN /\ IF existing # None
        THEN LET users1 == UpdateOne(users, [_id |-> existing[1]._id],
                                     [phone |-> p.phone])
                 user == FindOne(users1, [_id |-> existing[1]._id])
             IN /\ users' = users1
                /\ resp' = Ok("auth_google", p, Normalized(user[1]))
        ELSE LET user_id == NewId(users, "user")
                 users1 == CreateDocument(users, "user",
                                          User(p.email, p.phone, "basic"))
                 user == FindOne(users1, [_id |-> user_id])
             IN /\ users' = users1
                /\ resp' = Ok("auth_google", p, Normalized(user[1]))
     /\ UNCHANGED <<pets, tags, scanevents, coupons, pc>>

activate_tag(p) ==
  LET found == FindOne(tags, [code |-> p.code])
  IN /\ IF AlreadyActivated(found)
        THEN /\ resp' = Fail("activate_tag", p, 400, "Tag already activated")
             /\ tags' = tags
        ELSE LET tags1 == IF found = None
                          THEN CreateDocument(tags, "tag", Tag(p.code, FALSE))
                          ELSE tags
                 tag == IF found = None
                        THEN FindOne(tags1, [code |-> p.code])
                        ELSE found
                 tags2 == UpdateOne(tags1, [_id |-> tag[1]._id],
                                    ActivateSet(p.user_id))
                 final == FindOne(tags2, [_id |-> tag[1]._id])
             IN /\ found = None => HasRoom
                /\ tags' = tags2
                /\ resp' = Ok("activate_tag", p, Normalized(final[1]))
     /\ UNCHANGED <<users, pets, scanevents, coupons, pc>>

create_pet(p) ==
  /\ HasRoom
  /\ LET pet_id == NewId(pets, "pet")
         pets1 == CreateDocument(pets, "pet",
                                 Pet(p.owner_id, p.name, p.contact_visibility))
         pet == FindOne(pets1, [_id |-> pet_id])
     IN /\ pets' = pets1
        /\ resp' = Ok("create_pet", p, Normalized(pet[1]))
  /\ UNCHANGED <<users, tags, scanevents, coupons, pc>>

set_status(p) ==
  /\ IF p.status \notin {"ACTIVE", "LOST"}
     THEN resp' = Fail("set_status", p, 400, "Invalid status") /\ pets' = pets
     ELSE IF ~ObjectIdOk(p.pet_id)
     THEN resp' = Fail("set_status", p, 500, "InvalidId") /\ pets' = pets
     ELSE LET pets1 == UpdateOne(pets, [_id |-> p.pet_id],
                                 [status |-> p.status])
          IN IF MatchedCount(pets, [_id |-> p.pet_id]) = 0
             THEN resp' = Fail("set_status", p, 404, "Pet not found")
                  /\ pets' = pets1
             ELSE LET pet == FindOne(pets1, [_id |-> p.pet_id])
                  IN /\ pets' = pets1
                     /\ resp' = Ok("set_status", p, Normalized(pet[1]))
  /\ UNCHANGED <<users, tags, scanevents, coupons, pc>>

link_tag(p) ==
  LET tag == FindOne(tags, [code |-> p.code])
  IN /\ IF tag = None
        THEN resp' = Fail("link_tag", p, 404, "Tag not found") /\ tags' = tags
        ELSE LET tags1 == UpdateOne(tags, [_id |-> tag[1]._id],
                                    LinkSet(p.pet_id))
             IN /\ tags' = tags1
                /\ IF MatchedCount(tags, [_id |-> tag[1]._id]) = 0
                   THEN resp' = Fail("link_tag", p, 500, "Failed to link tag")
                   ELSE IF ~ObjectIdOk(p.pet_id)
                   THEN resp' = Fail("link_tag", p, 500, "InvalidId")
                   ELSE LET pet == FindOne(pets, [_id |-> p.pet_id])
                        IN IF pet = None
                           THEN resp' = Fail("link_tag", p, 500, "TypeError")
                           ELSE resp' = Ok("link_tag", p,
                                  [success |-> TRUE,
                                   tag |-> [code |-> tag[1].code],
                                   pet |-> [id |-> pet[1]._id,
                                            name |-> pet[1].name]])
     /\ UNCHANGED <<users, pets, scanevents, coupons, pc>>

\* the body of record_scan, shared with test_my_tag
RunScan(op, p) ==
  LET tag == FindOne(tags, [code |-> p.code])
  IN /\ IF ~TagIsActive(tag)
        THEN /\ resp' = Fail(op, p, 404, "Tag not active")
             /\ scanevents' = scanevents
        ELSE IF RefRaises(tag[1].pet_id) \/ RefRaises(tag[1].owner_id)
        THEN /\ resp' = Fail(op, p, 500, "InvalidId")
             /\ scanevents' = scanevents
        ELSE LET pet == Resolve(pets, tag[1].pet_id)
                 owner == Resolve(users, tag[1].owner_id)
             IN /\ HasRoom
                /\ scanevents' = CreateDocument(scanevents, "scanevent",
                                                ScanEventOf(p, pet, owner))
                /\ resp' = Ok(op, p, ScanPayload(p, pet, owner))
     /\ UNCHANGED <<users, pets, tags, coupons, pc>>

record_scan(p) == RunScan("record_scan", p)

\* record_scan(FinderScanPayload(code=code), dummy_request)
test_my_tag(code) == RunScan("test_my_tag", [code |-> code, gps |-> NoGps])

mark_reunion(p) ==
  LET existing == FindOne(coupons, UnredeemedFor(p.code))
  IN /\ IF existing # None
        THEN /\ resp' = Ok("mark_reunion", p, Normalized(existing[1]))
             /\ coupons' = coupons
        ELSE LET coupons1 == CreateDocument(coupons, "coupon",
                                            Coupon(p.code, FALSE))
                 saved == FindOne(coupons1, UnredeemedFor(p.code))
             IN /\ HasRoom
                /\ coupons' = coupons1
                /\ resp' = Ok("mark_reunion", p, Normalized(saved[1]))
     /\ UNCHANGED <<users, pets, tags, scanevents, pc>>

(* ---------------- handlers, one store call at a time ------------------ *)

\* the requests in flight, each served by a thread of its own: FastAPI runs a
\* "def" handler in a worker thread, and record_scan on the event loop thread
Workers == 1..NumWorkers
Idle == [at |-> "idle"]

Goto(w, local) == pc' = [pc EXCEPT ![w] = local]
\* the handler returns (or raises) r; "from" keeps the line it returned from
Return(w, r) ==
  pc' = [pc EXCEPT ![w] = [at |-> "done", op |-> r.op, from |-> pc[w].at,
                           resp |-> r]]
At(w, op, at) == pc[w].at = at /\ pc[w].op = op

Start(w, op, p) ==
  /\ pc[w].at = "idle"
  /\ Goto(w, [at |-> "find", op |-> op, p |-> p])
  /\ UNCHANGED <<store, resp>>

\* activate_tag, lines 81-83
activate_tag_find(w) ==
  /\ At(w, "activate_tag", "find")
  /\ LET p == pc[w].p
         tag == FindOne(tags, [code |-> p.code])
     IN IF AlreadyActivated(tag)
        THEN Return(w, Fail("activate_tag", p, 400, "Tag already activated"))
        ELSE IF tag = None
        THEN Goto(w, [pc[w] EXCEPT !.at = "insert"])
        ELSE Goto(w, [at |-> "update", op |-> "activate_tag", p |-> p,
                      tag |-> tag])
  /\ UNCHANGED <<store, resp>>

\* activate_tag, lines 86-87
activate_tag_insert(w) ==
  /\ At(w, "activate_tag", "insert")
  /\ tags' = CreateDocument(tags, "tag", Tag(pc[w].p.code, FALSE))
  /\ Goto(w, [pc[w] EXCEPT !.at = "refind"])
  /\ UNCHANGED <<users, pets, scanevents, coupons, resp>>

\* activate_tag, line 88
activate_tag_refind(w) ==
  /\ At(w, "activate_tag", "refind")
  /\ LET p == pc[w].p
     IN Goto(w, [at |-> "update", op |-> "activate_tag", p |-> p,
                 tag |-> FindOne(tags, [code |-> p.code])])
  /\ UNCHANGED <<store, resp>>

\* activate_tag, lines 90-93
activate_tag_update(w) ==
  /\ At(w, "activate_tag", "update")
  /\ tags' = UpdateOne(tags, [_id |-> pc[w].tag[1]._id],
                        ActivateSet(pc[w].p.user_id))
  /\ Goto(w, [pc[w] EXCEPT !.at = "read"])
  /\ UNCHANGED <<users, pets, scanevents, coupons, resp>>

\* activate_tag, lines 94-96
activate_tag_read(w) ==
  /\ At(w, "activate_tag", "read")
  /\ LET tag == FindOne(tags, [_id |-> pc[w].tag[1]._id])
     IN Return(w, Ok("activate_tag", pc[w].p, Normalized(tag[1])))
  /\ UNCHANGED <<store, resp>>

\* link_tag, lines 145-147
link_tag_find(w) ==
  /\ At(w, "link_tag", "find")
  /\ LET p == pc[w].p
         tag == FindOne(tags, [code |-> p.code])
     IN IF tag = None
        THEN Return(w, Fail("link_tag", p, 404, "Tag not found"))
        ELSE Goto(w, [at |-> "update", op |-> "link_tag", p |-> p, tag |-> tag])
  /\ UNCHANGED <<store, resp>>

\* link_tag, lines 148-152
link_tag_update(w) ==
  /\ At(w, "link_tag", "update")
  /\ tags' = UpdateOne(tags, [_id |-> pc[w].tag[1]._id],
                        LinkSet(pc[w].p.pet_id))
  /\ IF MatchedCount(tags, [_id |-> pc[w].tag[1]._id]) = 0
     THEN Return(w, Fail("link_tag", pc[w].p, 500, "Failed to link tag"))
     ELSE Goto(w, [pc[w] EXCEPT !.at = "findpet"])
  /\ UNCHANGED <<users, pets, scanevents, coupons, resp>>

\* link_tag, lines 153-158
link_tag_findpet(w) ==
  /\ At(w, "link_tag", "findpet")
  /\ LET p == pc[w].p
     IN IF ~ObjectIdOk(p.pet_id)
        THEN Return(w, Fail("link_tag", p, 500, "InvalidId"))
        ELSE LET pet == FindOne(pets, [_id |-> p.pet_id])
             IN IF pet = None
                THEN Return(w, Fail("link_tag", p, 500, "TypeError"))
                ELSE Return(w, Ok("link_tag", p,
                              [success |-> TRUE,
                               tag |-> [code |-> pc[w].tag[1].code],
                               pet |-> [id |-> pet[1]._id,
                                        name |-> pet[1].name]]))
  /\ UNCHANGED <<store, resp>>

\* record_scan, lines 172-174
record_scan_find(w) ==
  /\ At(w, "record_scan", "find")
  /\ LET p == pc[w].p
         tag == FindOne(tags, [code |-> p.code])
     IN IF ~TagIsActive(tag)
        THEN Return(w, Fail("record_scan", p, 404, "Tag not active"))
        ELSE Goto(w, [at |-> "findpet", op |-> "record_scan", p |-> p,
                      tag |-> tag])
  /\ UNCHANGED <<store, resp>>

\* record_scan, lines 179-183
record_scan_findpet(w) ==
  /\ At(w, "record_scan", "findpet")
  /\ LET ref == pc[w].tag[1].pet_id
     IN IF RefRaises(ref)
        THEN Return(w, Fail("record_scan", pc[w].p, 500, "InvalidId"))
        ELSE Goto(w, [at |-> "findowner", op |-> "record_scan", p |-> pc[w].p,
                      tag |-> pc[w].tag, pet |-> Resolve(pets, ref)])
  /\ UNCHANGED <<store, resp>>

\* record_scan, lines 184-188
record_scan_findowner(w) ==
  /\ At(w, "record_scan", "findowner")
  /\ LET ref == pc[w].tag[1].owner_id
     IN IF RefRaises(ref)
        THEN Return(w, Fail("record_scan", pc[w].p, 500, "InvalidId"))
        ELSE Goto(w, [at |-> "insert", op |-> "record_scan", p |-> pc[w].p,
                      tag |-> pc[w].tag, pet |-> pc[w].pet,
                      owner |-> Resolve(users, ref)])
  /\ UNCHANGED <<store, resp>>

\* record_scan, lines 191-237
record_scan_insert(w) ==
  /\ At(w, "record_scan", "insert")
  /\ scanevents' = CreateDocument(scanevents, "scanevent",
                                   ScanEventOf(pc[w].p, pc[w].pet, pc[w].owner))
  /\ Return(w, Ok("record_scan", pc[w].p,
                  ScanPayload(pc[w].p, pc[w].pet, pc[w].owner)))
  /\ UNCHANGED <<users, pets, tags, coupons, resp>>

\* mark_reunion, lines 257-260
mark_reunion_find(w) ==
  /\ At(w, "mark_reunion", "find")
  /\ LET p == pc[w].p
         existing == FindOne(coupons, UnredeemedFor(p.code))
     IN IF existing # None
        THEN Return(w, Ok("mark_reunion", p, Normalized(existing[1])))
        ELSE Goto(w, [pc[w] EXCEPT !.at = "insert"])
  /\ UNCHANGED <<store, resp>>

\* mutant: the insert is an upsert, which writes nothing when the code has an
\* unredeemed coupon by now
mark_reunion_insert_upsert(w) ==
  /\ At(w, "mark_reunion", "insert")
  /\ coupons' =
       IF FindOne(coupons, UnredeemedFor(pc[w].p.code)) # None
       THEN coupons
       ELSE CreateDocument(coupons, "coupon", Coupon(pc[w].p.code, FALSE))
  /\ Goto(w, [pc[w] EXCEPT !.at = "refind"])
  /\ UNCHANGED <<users, pets, tags, scanevents, resp>>

\* mark_reunion, lines 261-262
mark_reunion_insert(w) ==
  /\ At(w, "mark_reunion", "insert")
  /\ coupons' = CreateDocument(coupons, "coupon", Coupon(pc[w].p.code, FALSE))
  /\ Goto(w, [pc[w] EXCEPT !.at = "refind"])
  /\ UNCHANGED <<users, pets, tags, scanevents, resp>>

\* mark_reunion, lines 263-265
mark_reunion_refind(w) ==
  /\ At(w, "mark_reunion", "refind")
  /\ LET p == pc[w].p
         saved == FindOne(coupons, UnredeemedFor(p.code))
     IN Return(w, Ok("mark_reunion", p, Normalized(saved[1])))
  /\ UNCHANGED <<store, resp>>

(* --------------------------- specification ---------------------------- *)


\* The store as a deployment may find it: empty, or with a premium subscriber
\* (the tier is set by the subscription collaborator, never by a handler), a
\* pre-provisioned tag that nobody activated, and a coupon already redeemed.
Init ==
  /\ users \in { <<>>,
                 CreateDocument(<<>>, "user",
                                User("a@x.io", None, "premium")) }
  /\ pets = <<>>
  /\ tags \in { <<>>, CreateDocument(<<>>, "tag", Tag("TAG2", FALSE)) }
  /\ scanevents = <<>>
  /\ coupons \in { <<>>, CreateDocument(<<>>, "coupon", Coupon("TAG1", TRUE)) }
  /\ resp = [op |-> "none", status |-> 0]
  /\ pc = [w \in Workers |-> Idle]

Next ==
  \/ \E e \in Emails, ph \in Phones :
       auth_google([email |-> e, phone |-> ph])
  \/ \E c \in Codes, u \in UserIdInputs :
       activate_tag([code |-> c, user_id |-> u])
  \/ \E o \in OwnerInputs, n \in PetNames, v \in Visibilities :
       create_pet([owner_id |-> o, name |-> n, contact_visibility |-> v])
  \/ \E i \in PetIdInputs, s \in StatusInputs :
       set_status([pet_id |-> i, status |-> s])
  \/ \E c \in Codes, i \in PetIdInputs :
       link_tag([code |-> c, pet_id |-> i])
  \/ \E c \in Codes, g \in GpsInputs :
       record_scan([code |-> c, gps |-> g])
  \/ \E c \in Codes : test_my_tag(c)
  \/ \E c \in Codes : mark_reunion([code |-> c])

Spec == Init /\ [][Next]_vars

\* Each worker serves one request; the store calls of the workers interleave.
\* auth_google, create_pet and set_status touch only the user and pet
\* collections and are requests of Spec alone.
NextConc ==
  \E w \in Workers :
    \/ \E c \in Codes, u \in UserIdInputs :
         Start(w, "activate_tag", [code |-> c, user_id |-> u])
    \/ \E c \in Codes, i \in PetIdInputs :
         Start(w, "link_tag", [code |-> c, pet_id |-> i])
    \/ \E c \in Codes, g \in GpsInputs :
         Start(w, "record_scan", [code |-> c, gps |-> g])
    \/ \E c \in Codes : Start(w, "mark_reunion", [code |-> c])
    \/ activate_tag_find(w)
    \/ activate_tag_insert(w)
    \/ activate_tag_refind(w)
    \/ activate_tag_update(w)
    \/ activate_tag_read(w)
    \/ link_tag_find(w)
    \/ link_tag_update(w)
    \/ link_tag_findpet(w)
    \/ record_scan_find(w)
    \/ record_scan_findpet(w)
    \/ record_scan_findowner(w)
    \/ record_scan_insert(w)
    \/ mark_reunion_find(w)
    \/ mark_reunion_insert(w)
    \/ mark_reunion_refind(w)

SpecConc == Init /\ [][NextConc]_vars

(* ------------------------------ claims -------------------------------- *)

ScanOps == {"record_scan", "test_my_tag"}

\* read straight off the collections, for the statements below
TagsOf(code) == { i \in DOMAIN tags : tags[i].code = code }
ActiveTagsOf(code) == { i \in TagsOf(code) : tags[i].activated }
HasDoc(coll, id) == \E i \in DOMAIN coll : coll[i]._id = id
\* the reference if it names a document of coll, None otherwise
Resolved(coll, ref) == IF ref # None /\ HasDoc(coll, ref[1]) THEN ref ELSE None

\* C1: a scan of a code that has no Tag, or whose Tag is not activated, fails
\* with 404 "Tag not active" in both cases and changes no collection.
C1_InactiveScanIsNotActive ==
  [][ (resp'.op \in ScanOps /\ ActiveTagsOf(resp'.req.code) = {})
        => /\ resp'.status = 404
           /\ resp'.detail = "Tag not active"
           /\ UNCHANGED store ]_vars

\* a scan just failed on a code whose Tag exists and was never activated
C1_Witness ==
  /\ resp.op = "record_scan"
  /\ resp.status = 404
  /\ TagsOf(resp.req.code) # {}
  /\ ActiveTagsOf(resp.req.code) = {}

C3_ScanWritesOneEvent ==
  [][ (resp'.op \in ScanOps /\ resp'.status = 200) =>
        /\ UNCHANGED <<users, pets, tags, coupons>>
        /\ Len(scanevents') = Len(scanevents) + 1
        /\ SubSeq(scanevents', 1, Len(scanevents)) = scanevents
        /\ LET e == scanevents'[Len(scanevents')]
               t == tags[CHOOSE i \in ActiveTagsOf(resp'.req.code) : TRUE]
           IN /\ e.code = resp'.req.code
              /\ e.lat = resp'.req.gps.lat
              /\ e.lng = resp'.req.gps.lng
              /\ e.accuracy = resp'.req.gps.accuracy
              /\ e.pet_id = Resolved(pets, t.pet_id)
              /\ e.owner_id = Resolved(users, t.owner_id) ]_vars

\* a scan with a latitude and no longitude was recorded for a resolved pet
C3_Witness ==
  /\ resp.op = "record_scan"
  /\ resp.status = 200
  /\ resp.req.gps.lat # None
  /\ resp.req.gps.lng = None
  /\ scanevents # <<>>
  /\ scanevents[Len(scanevents)].pet_id # None
  /\ scanevents[Len(scanevents)].lng = None

\* the document of coll that a reference names; asked only where one exists
DocOf(coll, ref) == coll[CHOOSE i \in DOMAIN coll : coll[i]._id = ref[1]]

\* C4: a scan of a code whose Tag is activated never fails: it answers 200,
\* records its ScanEvent, and answers with status ACTIVE, no pet name, no
\* photos and visibility "phone" when the tag resolves to no pet, and with no
\* phone and no premium_alert when it resolves to no owner.
C4_ActiveScanNeverFails ==
  [][ (resp'.op \in ScanOps /\ ActiveTagsOf(resp'.req.code) # {}) =>
        LET t == tags[CHOOSE i \in ActiveTagsOf(resp'.req.code) : TRUE]
        IN /\ resp'.status = 200
           /\ Len(scanevents') = Len(scanevents) + 1
           /\ Resolved(pets, t.pet_id) = None =>
                /\ resp'.body.status = "ACTIVE"
                /\ resp'.body.pet.name = None
                /\ resp'.body.pet.photos = <<>>
                /\ resp'.body.contact.visibility = "phone"
           /\ Resolved(users, t.owner_id) = None =>
                /\ resp'.body.contact.phone = None
                /\ resp'.body.premium_alert = None ]_vars

UnredeemedOf(code) ==
  { i \in DOMAIN coupons : coupons[i].code = code /\ ~coupons[i].redeemed }

\* C6: with requests one after the other, mark_reunion answers with the
\* unredeemed coupon of the code and writes nothing when there is one, and
\* otherwise appends one Coupon of that code with redeemed = false and a new
\* id and answers with it; two calls in a row for one code answer with the
\* same coupon id; and no code ever has two unredeemed coupons.
C6_ReunionIsIdempotent ==
  /\ [](\A c \in Codes : Cardinality(UnredeemedOf(c)) <= 1)
  /\ [][ resp'.op = "mark_reunion" =>
           /\ resp'.status = 200
           /\ UNCHANGED <<users, pets, tags, scanevents>>
           /\ IF UnredeemedOf(resp'.req.code) # {}
              THEN /\ coupons' = coupons
                   /\ \E i \in UnredeemedOf(resp'.req.code) :
                        resp'.body.id = coupons[i]._id
              ELSE /\ Len(coupons') = Len(coupons) + 1
                   /\ SubSeq(coupons', 1, Len(coupons)) = coupons
                   /\ LET c == coupons'[Len(coupons')]
                      IN /\ c.code = resp'.req.code
                         /\ ~c.redeemed
                         /\ ~HasDoc(coupons, c._id)
                         /\ resp'.body.id = c._id
           /\ (resp.op = "mark_reunion" /\ resp.req.code = resp'.req.code)
                => resp'.body.id = resp.body.id ]_vars

\* a reunion for a code with a redeemed coupon was answered with a newer,
\* unredeemed coupon of that code
C6_Witness ==
  /\ resp.op = "mark_reunion"
  /\ \E i \in DOMAIN coupons :
       coupons[i].code = resp.req.code /\ coupons[i].redeemed
  /\ \E i \in UnredeemedOf(resp.req.code) : resp.body.id = coupons[i]._id

\* C8: a successful scan answers with a premium_alert exactly when the tag's
\* owner_id names a user whose tier is premium, and then the alert's gps is the
\* lat, lng and accuracy of the request, None kept.
C8_PremiumAlert ==
  (resp.op \in ScanOps /\ resp.status = 200) =>
    LET t == tags[CHOOSE i \in ActiveTagsOf(resp.req.code) : TRUE]
        premium == /\ Resolved(users, t.owner_id) # None
                   /\ DocOf(users, t.owner_id).tier = "premium"
    IN /\ (resp.body.premium_alert # None) <=> premium
       /\ premium =>
            /\ resp.body.premium_alert[1].gps.lat = resp.req.gps.lat
            /\ resp.body.premium_alert[1].gps.lng = resp.req.gps.lng
            /\ resp.body.premium_alert[1].gps.accuracy = resp.req.gps.accuracy

\* a premium owner's tag was scanned with a latitude and no longitude
C8_Witness ==
  /\ resp.op = "record_scan"
  /\ resp.status = 200
  /\ resp.body.premium_alert # None
  /\ resp.req.gps.lat # None
  /\ resp.req.gps.lng = None

\* worker w has answered a mark_reunion for code after finding no unredeemed
\* coupon (line 257) and inserting one (line 262)
ReunionInserted(w, code) ==
  /\ pc[w].at = "done"
  /\ pc[w].op = "mark_reunion"
  /\ pc[w].from = "refind"
  /\ pc[w].resp.req.code = code

\* C7: two mark_reunion calls for one code whose store calls interleave can
\* both find no unredeemed coupon and both insert: whenever two calls have
\* done so, the code has two unredeemed coupons or more.
C7_ConcurrentReunionsBothInsert ==
  \A c \in Codes : \A w1, w2 \in Workers :
    (w1 # w2 /\ ReunionInserted(w1, c) /\ ReunionInserted(w2, c))
      => Cardinality(UnredeemedOf(c)) >= 2

\* two calls for one code have each inserted a coupon
C7_Witness ==
  \E c \in Codes : \E w1, w2 \in Workers :
    /\ w1 # w2
    /\ ReunionInserted(w1, c)
    /\ ReunionInserted(w2, c)
    /\ Cardinality(UnredeemedOf(c)) = 2

\* C9: in every state, also while activate_tag calls for one code interleave,
\* the tag collection holds at most one Tag per code.
C9_TagCodeIsUnique == \A c \in Codes : Cardinality(TagsOf(c)) <= 1

\* C10: once an activate_tag call has answered 200 with a tag owned by U, that
\* tag stays activated and owned by U, whatever the other requests do and
\* however their store calls interleave.
C10_OwnerIsStable ==
  \A w \in Workers :
    (pc[w].at = "done" /\ pc[w].op = "activate_tag" /\ pc[w].resp.status = 200)
      => \E i \in DOMAIN tags :
           /\ tags[i]._id = pc[w].resp.body._id
           /\ tags[i].activated
           /\ tags[i].owner_id = pc[w].resp.body.owner_id

====
